---------------------------- MODULE Spec2Model ----------------------------
(***************************************************************************)
(* A model of the coreference annotation preprocessor                      *)
(* src/id/coref/preprocess.py (class CorefDataPreprocessor) and of the     *)
(* grouping loop of src/id/coref/training/dataset_reader.py.               *)
(*                                                                         *)
(* A label string of the annotation column is modelled by its two parts:   *)
(*   "NOUN[3]"    is  [prefix |-> "NOUN",  ids |-> <<3>>]                  *)
(*   "IDENT[1_2]" is  [prefix |-> "IDENT", ids |-> <<1, 2>>]               *)
(*   "_"          is  [prefix |-> "_",     ids |-> <<>>]                   *)
(* so that label.split("[")[0] is the prefix and                           *)
(* label.split("[")[1][:-1].split("_") is the sequence ids.  Two label     *)
(* strings are equal exactly when the two records are.  A label with      *)
(* ids = <<>> is a string without "[", which is its prefix: the empty      *)
(* string is [prefix |-> "", ids |-> <<>>].  An identifier is an integer   *)
(* >= 0 written in decimal, and a prefix has no "[", "|", tab or newline.  *)
(* The bracket part holds digits and "_" only, so a link type is a         *)
(* substring of the label string exactly when it is a substring of the     *)
(* prefix.                                                                 *)
(*                                                                         *)
(* Token positions, start and end are 0-based as in the program; the       *)
(* sequences of the model are 1-based, so tokens[i] of the program is      *)
(* tokens[i + 1] here.                                                     *)
(*                                                                         *)
(* The mention dictionary is an insertion-ordered Python dict; it is       *)
(* modelled as the sequence of its values in insertion order, each with    *)
(* its key in the field id.  The keys "end" and "label" hold positions and *)
(* indices, which are >= 0: a dict without the key has the value None.     *)
(* The keys "text" and "type" hold any token list and any string: the      *)
(* field is <<v>> for a dict that has the value v and <<>> (NoText,        *)
(* NoType) for a dict without the key.                                     *)
(*                                                                         *)
(* The set _appos_mentions is iterated by the program (line 195), in the   *)
(* order of the slots of its hash table.  It is modelled by that table: a  *)
(* sequence of 8, 16, 32, ... slots, each None or an identifier (an        *)
(* integer >= 0, which is its own hash).                                   *)
(*                                                                         *)
(* An uncaught exception ends convert_tsv_to_jsonl before any record is    *)
(* written: the model then moves to pc = "crashed" and records the         *)
(* exception's class in error; the fields keep what the method had         *)
(* assigned before the exception.                                          *)
(***************************************************************************)
EXTENDS Integers, Sequences, FiniteSets, TLC

VARIABLES
    use_appos, use_exappos, use_aliases, remove_singletons, \* the four flags
    text, tokens, labels,        \* paragraph-specific fields
    mention_dict, clusters, aliases, exappos_mentions, appos_mentions,
    statistics,                  \* self._statistics
    mention_pairs, appositive_pairs, \* locals of _extract_coreference_links
    paragraphs, para_i,          \* the blocks of the input file, blocks started
    output_data,                 \* the records appended so far
    pc, error,                   \* position in convert_tsv_to_jsonl, exception
    g_pairs, g_i, cluster_list, g_pc \* one call of _group_mentions_into_clusters

flags == <<use_appos, use_exappos, use_aliases, remove_singletons>>
fields == <<text, tokens, labels, mention_dict, clusters, aliases,
            exappos_mentions, appos_mentions>>
groupvars == <<g_pairs, g_i, cluster_list, g_pc>>
vars == <<flags, fields, statistics, mention_pairs, appositive_pairs,
          paragraphs, para_i, output_data, pc, error, groupvars>>

-----------------------------------------------------------------------------
(* Program constants and representation of absent dictionary keys.         *)

MENTION_TYPES == {"PROPER", "PRONOUN", "NOUN", "VERB", "LIST"}
COREFERENCE_LINK_TYPES == {"IDENT", "APPOS", "ALIAS", "EXAPPOS"}

None == -1
NoText == <<>>
NoType == <<>>
NoError == "none"
Placeholder == [prefix |-> "_", ids |-> <<>>]
EmptyLabel == [prefix |-> "", ids |-> <<>>]

Min(S) == CHOOSE x \in S : \A y \in S : x <= y
Max(S) == CHOOSE x \in S : \A y \in S : x >= y
Range(s) == {s[k] : k \in 1..Len(s)}

\* tokens[a:b] of Python for 0 <= a, 0 <= b.
Slice(s, a, b) ==
    LET hi == IF b > Len(s) THEN Len(s) ELSE b
    IN  IF a >= hi THEN <<>> ELSE SubSeq(s, a + 1, hi)

\* list.count(x)
Count(s, x) == Cardinality({k \in 1..Len(s) : s[k] = x})

\* "x in list"
InList(x, s) == \E k \in 1..Len(s) : s[k] = x

\* "sub in s" for two strings
Contains(sub, s) ==
    \E i \in 1..(Len(s) - Len(sub) + 1) : SubSeq(s, i, i + Len(sub) - 1) = sub

\* any(link_type in label for link_type in COREFERENCE_LINK_TYPES)
IsLinkLabel(label) ==
    \E link_type \in COREFERENCE_LINK_TYPES : Contains(link_type, label.prefix)

-----------------------------------------------------------------------------
(* The mention dictionary.                                                 *)

HasMention(md, id) == \E k \in 1..Len(md) : md[k].id = id
MentionIndex(md, id) == CHOOSE k \in 1..Len(md) : md[k].id = id
Mention(md, id) == md[MentionIndex(md, id)]
MentionIds(md) == {md[k].id : k \in 1..Len(md)}

\* self._mention_dict.pop(id), for an id that is a key
PopMention(md, id) ==
    LET Keep(m) == m.id # id IN SelectSeq(md, Keep)

\* self._mention_dict[mention_id] = {"start": i}
NewMention(id, i) ==
    [id |-> id, start |-> i, end |-> None, text |-> NoText,
     type |-> NoType, label |-> None]

-----------------------------------------------------------------------------
(* _extract_mentions                                                       *)

\* The least power of ten, from p on, that is greater than n.
RECURSIVE PowerOfTenAbove(_, _)
PowerOfTenAbove(p, n) == IF p > n THEN p ELSE PowerOfTenAbove(10 * p, n)

\* int("a_b_c"): the underscores between the digits are ignored.
RECURSIVE IntOf(_, _, _)
IntOf(ids, k, acc) ==
    IF k > Len(ids) THEN acc
    ELSE IntOf(ids, k + 1, acc * PowerOfTenAbove(10, ids[k]) + ids[k])

\* int(label.split("[")[1][:-1])
MentionId(label) == IntOf(label.ids, 1, 0)

\* The body of the inner loop for one label of position i, on the state
\* st = [md, err].
ExtractLabel(st, toks, labs, i, label) ==
    IF st.err # NoError THEN st
    ELSE IF IsLinkLabel(label) THEN st
    ELSE IF label = EmptyLabel THEN st                    \* len(label) == 0
    ELSE IF label.ids = <<>>
    THEN [st EXCEPT !.err = "IndexError"]                 \* label.split("[")[1]
    ELSE
      LET mention_id == MentionId(label)
          md1 == IF HasMention(st.md, mention_id) THEN st.md
                 ELSE Append(st.md, NewMention(mention_id, i))
          k == MentionIndex(md1, mention_id)
      IN  IF (i = Len(labs) - 1) \/ ~InList(label, labs[i + 2])
          THEN [st EXCEPT !.md =
                  [md1 EXCEPT ![k] =
                     [@ EXCEPT !.end = i,
                               !.text = <<Slice(toks, md1[k].start, i + 1)>>,
                               !.type = <<label.prefix>>]]]
          ELSE [st EXCEPT !.md = md1]

RECURSIVE ExtractLabelList(_, _, _, _, _)
ExtractLabelList(st, toks, labs, i, j) ==
    IF j > Len(labs[i + 1]) THEN st
    ELSE ExtractLabelList(ExtractLabel(st, toks, labs, i, labs[i + 1][j]),
                          toks, labs, i, j + 1)

\* The outer loop from position i on; a line whose label list has the
\* placeholder is skipped whole.
RECURSIVE ExtractFrom(_, _, _, _)
ExtractFrom(st, toks, labs, i) ==
    IF i >= Len(labs) THEN st
    ELSE IF InList(Placeholder, labs[i + 1])
         THEN ExtractFrom(st, toks, labs, i + 1)
         ELSE ExtractFrom(ExtractLabelList(st, toks, labs, i, 1), toks, labs, i + 1)

\* The whole method: the new mention dictionary and the exception raised,
\* if any.
ExtractMentions(md, toks, labs) ==
    ExtractFrom([md |-> md, err |-> NoError], toks, labs, 0)

-----------------------------------------------------------------------------
(* _group_mentions_into_clusters                                           *)

PairSet(pair) == {pair[1], pair[2]}

\* GroupStep without the break: every cluster that intersects the pair
\* takes both identifiers.
GroupStepNoBreak(cl, pair) ==
    LET matching == {k \in 1..Len(cl) : PairSet(pair) \cap cl[k] # {}}
    IN  IF matching = {} THEN Append(cl, PairSet(pair))
        ELSE [k \in 1..Len(cl) |->
                IF k \in matching THEN cl[k] \cup PairSet(pair) ELSE cl[k]]

\* The body of "for pair in mention_pairs[1:]": the first cluster, in list
\* order, that intersects the pair takes both identifiers (break); when no
\* cluster does, the pair is appended as a new cluster.
GroupStep(cl, pair) ==
    LET matching == {k \in 1..Len(cl) : PairSet(pair) \cap cl[k] # {}}
    IN  IF matching = {} THEN Append(cl, PairSet(pair))
        ELSE [cl EXCEPT ![Min(matching)] = @ \cup PairSet(pair)]

RECURSIVE GroupFrom(_, _, _)
GroupFrom(cl, pairs, k) ==
    IF k > Len(pairs) THEN cl
    ELSE GroupFrom(GroupStep(cl, pairs[k]), pairs, k + 1)

Group(pairs) ==
    IF Len(pairs) = 0 THEN <<>>
    ELSE GroupFrom(<<PairSet(pairs[1])>>, pairs, 2)

\* tuple(sorted(list(cluster)))
RECURSIVE SortedTuple(_)
SortedTuple(S) ==
    IF S = {} THEN <<>>
    ELSE <<Min(S)>> \o SortedTuple(S \ {Min(S)})

-----------------------------------------------------------------------------
(* The set self._appos_mentions: set(), update({key}) and iteration, as    *)
(* the interpreter does them on the set's hash table.                      *)

\* set()
EmptySet == [i \in 1..8 |-> None]

\* list(s): the members in iteration order, which is slot order
SetList(t) == LET Used(x) == x # None IN SelectSeq(t, Used)

SetMembers(t) == Range(t) \ {None}

\* The slot (0-based) that holds key or is the first unused one on key's
\* probe sequence, which goes on from slot i.
RECURSIVE SetProbe(_, _, _, _)
SetProbe(t, key, i, perturb) ==
    LET mask == Len(t) - 1
        last == IF i + 9 <= mask THEN i + 9 ELSE i
        found == {j \in i..last : t[j + 1] = None \/ t[j + 1] = key}
    IN  IF found # {} THEN Min(found)
        ELSE SetProbe(t, key, (i * 5 + 1 + (perturb \div 32)) % (mask + 1),
                      perturb \div 32)

SetAdd(t, key) == [t EXCEPT ![SetProbe(t, key, key % Len(t), key) + 1] = key]

RECURSIVE SetAddAll(_, _, _)
SetAddAll(t, keys, k) ==
    IF k > Len(keys) THEN t ELSE SetAddAll(SetAdd(t, keys[k]), keys, k + 1)

RECURSIVE SetTableSize(_, _)
SetTableSize(n, minused) ==
    IF n > minused THEN n ELSE SetTableSize(2 * n, minused)

\* The members move, in slot order, to a table of more slots.
SetResize(t, minused) ==
    SetAddAll([i \in 1..SetTableSize(8, minused) |-> None], SetList(t), 1)

\* s.update({key})
SetUpdate(t, key) ==
    LET fill == Len(SetList(t))
        t1 == IF (fill + 1) * 5 >= (Len(t) - 1) * 3
              THEN SetResize(t, (fill + 1) * 2) ELSE t
    IN  SetAdd(t1, key)

-----------------------------------------------------------------------------
(* _handle_appositives                                                     *)

\* The body of "for mention_pair in clustered_appositive_pairs" on the state
\* st = [md, appos, err]; mention_pair is a sorted tuple of identifiers.
AppositiveStep(st, mention_pair, toks, fuse) ==
    IF st.err # NoError THEN st
    ELSE IF Len(mention_pair) < 2
    THEN [st EXCEPT !.err = "IndexError"]         \* mention_pair[1]
    ELSE
      LET st1 == [st EXCEPT !.appos = SetUpdate(@, mention_pair[2])]
          head == mention_pair[1]
          last == mention_pair[Len(mention_pair)]
      IN  IF ~fuse THEN st1
          ELSE IF ~HasMention(st1.md, head) \/ ~HasMention(st1.md, last)
          THEN [st1 EXCEPT !.err = "KeyError"]
          ELSE IF Mention(st1.md, last).end = None              \* ["end"]
          THEN [st1 EXCEPT !.err = "KeyError"]
          ELSE
            LET k == MentionIndex(st1.md, head)
                span_start == st1.md[k].start
                new_span_end == Mention(st1.md, last).end
                fused_text == Slice(toks, span_start, new_span_end + 1)
                md1 == [st1.md EXCEPT ![k] = [@ EXCEPT !.end = new_span_end,
                                                      !.text = <<fused_text>>]]
            IN  IF Count(fused_text, "(") = Count(fused_text, ")") + 1
                THEN IF new_span_end + 1 >= Len(toks)
                     THEN [st1 EXCEPT !.md = md1, !.err = "IndexError"]
                     ELSE IF toks[new_span_end + 2] = ")"
                          THEN [st1 EXCEPT !.md =
                                  [md1 EXCEPT ![k] =
                                     [@ EXCEPT !.end = new_span_end + 1,
                                               !.text = <<Slice(toks, span_start,
                                                                new_span_end + 2)>>]]]
                          ELSE [st1 EXCEPT !.md = md1]
                ELSE [st1 EXCEPT !.md = md1]

RECURSIVE AppositiveLoop(_, _, _, _, _)
AppositiveLoop(st, tuples, k, toks, fuse) ==
    IF k > Len(tuples) THEN st
    ELSE AppositiveLoop(AppositiveStep(st, tuples[k], toks, fuse),
                        tuples, k + 1, toks, fuse)

HandleAppositives(md, appos, apairs, toks, fuse) ==
    LET appos_clusters == Group(apairs)
        clustered == [k \in 1..Len(appos_clusters) |->
                         SortedTuple(appos_clusters[k])]
    IN  AppositiveLoop([md |-> md, appos |-> appos, err |-> NoError],
                       clustered, 1, toks, fuse)

-----------------------------------------------------------------------------
(* _extract_coreference_links                                              *)

\* All labels of the paragraph in the order of the two nested loops.
RECURSIVE Flatten(_)
Flatten(labs) ==
    IF Len(labs) = 0 THEN <<>> ELSE Head(labs) \o Flatten(Tail(labs))

\* LinkStep that records the first identifier of an ALIAS pair for removal
\* in place of the second.
LinkStepAliasSource(acc, label, keep_aliases, keep_exappos) ==
    IF acc.err # NoError THEN acc
    ELSE IF ~IsLinkLabel(label) THEN acc
    ELSE IF label.ids = <<>> THEN [acc EXCEPT !.err = "IndexError"]
    ELSE IF Len(label.ids) # 2 THEN acc
    ELSE
      LET mention_pair == <<label.ids[1], label.ids[2]>>
          label_class == label.prefix
      IN  IF label_class = "APPOS"
          THEN [acc EXCEPT !.apairs = Append(@, mention_pair)]
          ELSE [acc EXCEPT
                  !.pairs = Append(@, mention_pair),
                  !.aliases = IF ~keep_aliases /\ label_class = "ALIAS"
                              THEN Append(@, mention_pair[1]) ELSE @,
                  !.exappos = IF ~keep_exappos /\ label_class = "EXAPPOS"
                              THEN Append(@, mention_pair[2]) ELSE @]

\* The body of the nested loops for one label, on
\* acc = [pairs, apairs, aliases, exappos, err].
LinkStep(acc, label, keep_aliases, keep_exappos) ==
    IF acc.err # NoError THEN acc
    ELSE IF ~IsLinkLabel(label) THEN acc
    ELSE IF label.ids = <<>>
    THEN [acc EXCEPT !.err = "IndexError"]       \* label.split("[")[1]
    ELSE IF Len(label.ids) # 2 THEN acc          \* "Skipping..."
    ELSE
      LET mention_pair == <<label.ids[1], label.ids[2]>>
          label_class == label.prefix
      IN  IF label_class = "APPOS"
          THEN [acc EXCEPT !.apairs = Append(@, mention_pair)]
          ELSE [acc EXCEPT
                  !.pairs = Append(@, mention_pair),
                  !.aliases = IF ~keep_aliases /\ label_class = "ALIAS"
                              THEN Append(@, mention_pair[2]) ELSE @,
                  !.exappos = IF ~keep_exappos /\ label_class = "EXAPPOS"
                              THEN Append(@, mention_pair[2]) ELSE @]

RECURSIVE LinkLoop(_, _, _, _, _)
LinkLoop(acc, flat, k, keep_aliases, keep_exappos) ==
    IF k > Len(flat) THEN acc
    ELSE LinkLoop(LinkStep(acc, flat[k], keep_aliases, keep_exappos),
                  flat, k + 1, keep_aliases, keep_exappos)

Endpoints(pairs) == UNION {PairSet(pairs[k]) : k \in 1..Len(pairs)}

\* The body of "for mention in self._appos_mentions" on st = [md, appos,
\* err]: a bare appositive that no coreference pair names is popped.
DropStep(st, mention, pairs) ==
    IF st.err # NoError THEN st
    ELSE IF mention \in Endpoints(pairs) THEN st
    ELSE IF ~HasMention(st.md, mention) THEN [st EXCEPT !.err = "KeyError"]
    ELSE [st EXCEPT !.md = PopMention(@, mention)]

RECURSIVE DropLoop(_, _, _, _)
DropLoop(st, order, k, pairs) ==
    IF k > Len(order) THEN st
    ELSE DropLoop(DropStep(st, order[k], pairs), order, k + 1, pairs)

\* DropAppositives without the test on the coreference pairs: every bare
\* appositive is popped.
DropAllAppositives(st, pairs) ==
    IF st.err # NoError THEN st
    ELSE DropLoop(st, SetList(st.appos), 1, <<>>)

\* Lines 195-197, in the iteration order of the set.
DropAppositives(st, pairs) ==
    IF st.err # NoError THEN st
    ELSE DropLoop(st, SetList(st.appos), 1, pairs)

\* The whole method on the engine's fields: the result has the new mention
\* dictionary, alias and extended-appositive lists, bare-appositive set and
\* cluster list, the two local pair lists, and the exception raised, if any.
ExtractCoreferenceLinks(md, toks, labs, als, exs, appos, fuse, keep_aliases, keep_exappos) ==
    LET acc == LinkLoop([pairs |-> <<>>, apairs |-> <<>>,
                         aliases |-> als, exappos |-> exs, err |-> NoError],
                        Flatten(labs), 1, keep_aliases, keep_exappos)
        st == IF acc.err # NoError
              THEN [md |-> md, appos |-> appos, err |-> acc.err]
              ELSE DropAppositives(
                       HandleAppositives(md, appos, acc.apairs, toks, fuse),
                       acc.pairs)
    IN  [md |-> st.md, appos |-> st.appos, err |-> st.err,
         aliases |-> acc.aliases, exappos |-> acc.exappos,
         pairs |-> acc.pairs, apairs |-> acc.apairs,
         clusters |-> IF st.err = NoError THEN Group(acc.pairs) ELSE <<>>]

-----------------------------------------------------------------------------
(* _assign_mentions_to_clusters                                            *)

InSomeCluster(cl, id) == \E i \in 1..Len(cl) : id \in cl[i]

\* The index i (0-based) of the first cluster that contains id.
FirstCluster(cl, id) == Min({i \in 1..Len(cl) : id \in cl[i]}) - 1

\* AssignLabel without the break: the last cluster that contains the
\* identifier gives the label.
AssignLabelLastMatch(cl, m) ==
    IF InSomeCluster(cl, m.id)
    THEN [m EXCEPT !.label = Max({i \in 1..Len(cl) : m.id \in cl[i]}) - 1]
    ELSE m

AssignLabel(cl, m) ==
    IF InSomeCluster(cl, m.id) THEN [m EXCEPT !.label = FirstCluster(cl, m.id)]
    ELSE m

\* result: [md, singletons]; singletons is the number of mentions matched
\* by no cluster, which are popped when drop is set.
AssignMentionsToClusters(md, cl, drop) ==
    LET labelled == [k \in 1..Len(md) |-> AssignLabel(cl, md[k])]
        IsSingleton(m) == ~InSomeCluster(cl, m.id)
        NotSingleton(m) == InSomeCluster(cl, m.id)
    IN  [md |-> IF drop THEN SelectSeq(labelled, NotSingleton) ELSE labelled,
         singletons |-> Len(SelectSeq(labelled, IsSingleton))]

-----------------------------------------------------------------------------
(* _remove_aliases and _remove_exappos: the same loop over a list of       *)
(* identifiers, on st = [md, clusters, err].                               *)

RemoveStep(st, mention_id) ==
    IF st.err # NoError THEN st
    ELSE IF ~HasMention(st.md, mention_id) THEN [st EXCEPT !.err = "KeyError"]
    ELSE [st EXCEPT !.md = PopMention(@, mention_id),
                    !.clusters = [i \in 1..Len(@) |-> @[i] \ {mention_id}]]

RECURSIVE RemoveLoop(_, _, _)
RemoveLoop(st, ids, k) ==
    IF k > Len(ids) THEN st
    ELSE RemoveLoop(RemoveStep(st, ids[k]), ids, k + 1)

RemoveAliasesOp(md, cl, als) ==
    RemoveLoop([md |-> md, clusters |-> cl, err |-> NoError], als, 1)

RemoveExapposOp(md, cl, exs) ==
    RemoveLoop([md |-> md, clusters |-> cl, err |-> NoError], exs, 1)

-----------------------------------------------------------------------------
(* get_paragraph_data.  A block is [first, lines]: its first line, which   *)
(* is "#Text=" and the text in a block that begins with one, and the lines *)
(* that follow.  A line is the record of                                   *)
(* its columns: how many there are (columns), column 0 (index), column 1   *)
(* (offsets), column 2 (token), column 3 split at "|" (labels; the empty   *)
(* column gives the list of the empty label) and the columns from the      *)
(* fifth on (rest).  A column that the line does not have is "" or <<>>.   *)
(* The file is read in text mode, which turns every "\r" into "\n": the    *)
(* blocks of a file hold no "\r".                                          *)

\* The white space that str.strip removes: space, the escapes and the
\* characters U+000B, U+001C to U+001F, U+0085, U+00A0 and U+1680.  (The
\* white space from U+2000 on cannot stand in a string of the model.)
Whitespace ==
    {" ", "\t", "\n", "\r", "\f", "", "", "", "", "", "", " ", " "}

\* s.rstrip()
RECURSIVE RStrip(_)
RStrip(s) ==
    IF Len(s) > 0 /\ SubSeq(s, Len(s), Len(s)) \in Whitespace
    THEN RStrip(SubSeq(s, 1, Len(s) - 1))
    ELSE s

\* The label column at the end of the block: only a last label without
\* "[" can end in white space.
StrippedLabels(labs) ==
    IF Len(labs) = 0 THEN labs
    ELSE IF labs[Len(labs)].ids # <<>> THEN labs
    ELSE [labs EXCEPT ![Len(labs)] = [@ EXCEPT !.prefix = RStrip(@)]]

\* The last line of the block after the strip: the white space at its end
\* goes, and with it every column that is blank, from the last one down;
\* columns = 0 when nothing is left of the line.
RECURSIVE StrippedLine(_)
StrippedLine(line) ==
    LET n == line.columns
    IN  IF n = 0 THEN line
        ELSE IF n >= 5
        THEN IF RStrip(line.rest[n - 4]) = ""
             THEN StrippedLine([line EXCEPT !.columns = n - 1,
                                            !.rest = SubSeq(@, 1, n - 5)])
             ELSE [line EXCEPT !.rest[n - 4] = RStrip(@)]
        ELSE IF n = 4
        THEN IF StrippedLabels(line.labels) \in {<<>>, <<EmptyLabel>>}
             THEN StrippedLine([line EXCEPT !.columns = 3, !.labels = <<>>])
             ELSE [line EXCEPT !.labels = StrippedLabels(@)]
        ELSE IF n = 3
        THEN IF RStrip(line.token) = ""
             THEN StrippedLine([line EXCEPT !.columns = 2, !.token = ""])
             ELSE [line EXCEPT !.token = RStrip(@)]
        ELSE IF n = 2
        THEN IF RStrip(line.offsets) = ""
             THEN StrippedLine([line EXCEPT !.columns = 1, !.offsets = ""])
             ELSE [line EXCEPT !.offsets = RStrip(@)]
        ELSE IF RStrip(line.index) = ""
             THEN [line EXCEPT !.columns = 0, !.index = ""]
             ELSE [line EXCEPT !.index = RStrip(@)]

\* The lines after the right side of the strip: a last line of which
\* nothing is left goes with the newline before it, and the strip goes on
\* in the line before.
RECURSIVE RStrippedLines(_)
RStrippedLines(lines) ==
    IF Len(lines) = 0 THEN lines
    ELSE LET last == StrippedLine(lines[Len(lines)])
         IN  IF last.columns = 0
             THEN RStrippedLines(SubSeq(lines, 1, Len(lines) - 1))
             ELSE [lines EXCEPT ![Len(lines)] = last]

\* s.lstrip()
RECURSIVE LStrip(_)
LStrip(s) ==
    IF Len(s) > 0 /\ SubSeq(s, 1, 1) \in Whitespace
    THEN LStrip(SubSeq(s, 2, Len(s)))
    ELSE s

\* "_".join of the identifiers from the k-th on, in decimal
RECURSIVE IdsString(_, _)
IdsString(ids, k) ==
    IF k > Len(ids) THEN ""
    ELSE IF k = Len(ids) THEN ToString(ids[k])
    ELSE ToString(ids[k]) \o "_" \o IdsString(ids, k + 1)

\* The string of a label
LabelString(label) ==
    IF label.ids = <<>> THEN label.prefix
    ELSE label.prefix \o "[" \o IdsString(label.ids, 1) \o "]"

\* "|".join of the labels from the k-th on
RECURSIVE LabelColumn(_, _)
LabelColumn(labs, k) ==
    IF k > Len(labs) THEN ""
    ELSE IF k = Len(labs) THEN LabelString(labs[k])
    ELSE LabelString(labs[k]) \o "|" \o LabelColumn(labs, k + 1)

\* "\t".join of the strings from the k-th on
RECURSIVE TabJoin(_, _)
TabJoin(cols, k) ==
    IF k > Len(cols) THEN ""
    ELSE IF k = Len(cols) THEN cols[k]
    ELSE cols[k] \o "\t" \o TabJoin(cols, k + 1)

\* The string of a line
RawLine(line) ==
    LET cols == <<line.index, line.offsets, line.token,
                  LabelColumn(line.labels, 1)>> \o line.rest
    IN  TabJoin(SubSeq(cols, 1, line.columns), 1)

\* The left side of the strip: a first line that is blank goes with the
\* newline after it, and the line after it is the first.
RECURSIVE LStrippedBlock(_, _)
LStrippedBlock(first, lines) ==
    IF LStrip(first) # "" \/ Len(lines) = 0
    THEN [first |-> LStrip(first), lines |-> lines]
    ELSE LStrippedBlock(RawLine(lines[1]), Tail(lines))

\* paragraph.strip().split("\n"): lines[0] and lines[1:]
StrippedBlock(p) ==
    LET lines == RStrippedLines(p.lines)
    IN  LStrippedBlock(IF Len(lines) = 0 THEN RStrip(p.first) ELSE p.first, lines)

\* paragraph.strip().split("\n")[1:]
StrippedLines(p) == StrippedBlock(p).lines

\* lines[0][6:]
StrippedText(p) ==
    LET first == StrippedBlock(p).first
    IN  IF Len(first) <= 6 THEN "" ELSE SubSeq(first, 7, Len(first))

KeptLines(p) ==
    LET Kept(line) == line.columns # 1 IN SelectSeq(StrippedLines(p), Kept)

ParagraphTokens(p) ==
    LET kept == KeptLines(p) IN [k \in 1..Len(kept) |-> kept[k].token]

ParagraphLabels(p) ==
    LET kept == KeptLines(p) IN [k \in 1..Len(kept) |-> kept[k].labels]

\* The values that line 254 assigns, or the IndexError of columns[2] or
\* columns[3] on a kept line of fewer than four columns.
GetParagraphData(p) ==
    LET kept == KeptLines(p)
    IN  IF \E k \in 1..Len(kept) : kept[k].columns < 4
        THEN [err |-> "IndexError", text |-> "", tokens |-> <<>>, labels |-> <<>>]
        ELSE [err |-> NoError, text |-> StrippedText(p),
              tokens |-> ParagraphTokens(p), labels |-> ParagraphLabels(p)]

-----------------------------------------------------------------------------
(* The record of a paragraph: list(self._mention_dict.values()) has the    *)
(* mentions' dicts, which do not hold the identifier.                      *)

MentionInfo(m) ==
    [start |-> m.start, end |-> m.end, text |-> m.text, type |-> m.type,
     label |-> m.label]

ParagraphDict(txt, toks, md) ==
    [text |-> txt, tokens |-> toks,
     corefs |-> [k \in 1..Len(md) |-> MentionInfo(md[k])]]

\* dataset_reader._read: clusters[label].append((start, end)) for the
\* corefs that have the key "label"; the groups keyed by label, or the
\* KeyError of coref['end'] on a coref that has a label and no end.
ReaderClusters(corefs) ==
    LET labelled == {k \in 1..Len(corefs) : corefs[k].label # None}
        keys == {corefs[k].label : k \in labelled}
    IN  IF \E k \in labelled : corefs[k].end = None
        THEN [err |-> "KeyError", clusters |-> <<>>]
        ELSE [err |-> NoError,
              clusters |->
                [c \in keys |->
                    LET Of(m) == m.label = c
                        members == SelectSeq(corefs, Of)
                    IN  [k \in 1..Len(members) |->
                            <<members[k].start, members[k].end>>]]]

-----------------------------------------------------------------------------
(* get_paragraph_data and get_coref_info on a block p, by an engine with   *)
(* the flags fs whose paragraph fields are empty and whose                 *)
(* extended-appositive list is exs: the mention dictionary and cluster     *)
(* list when get_coref_info returns or when an exception leaves it.        *)

GetCorefInfo(p, fs, exs) ==
    LET pd == GetParagraphData(p)
        em == ExtractMentions(<<>>, pd.tokens, pd.labels)
        lk == ExtractCoreferenceLinks(em.md, pd.tokens, pd.labels, <<>>, exs,
                                      EmptySet, fs[1], fs[3], fs[2])
        asg == AssignMentionsToClusters(lk.md, lk.clusters, fs[4])
        al == IF fs[3] THEN [md |-> asg.md, clusters |-> lk.clusters, err |-> NoError]
              ELSE RemoveAliasesOp(asg.md, lk.clusters, lk.aliases)
        ex == IF fs[2] THEN al
              ELSE RemoveExapposOp(al.md, al.clusters, lk.exappos)
    IN  IF pd.err # NoError THEN [md |-> <<>>, clusters |-> <<>>, err |-> pd.err]
        ELSE IF em.err # NoError THEN [md |-> em.md, clusters |-> <<>>, err |-> em.err]
        ELSE IF lk.err # NoError THEN [md |-> lk.md, clusters |-> <<>>, err |-> lk.err]
        ELSE IF al.err # NoError THEN al
        ELSE ex

-----------------------------------------------------------------------------
(* The steps of convert_tsv_to_jsonl.                                      *)

EmptyStatistics ==
    [paragraph_count |-> 0, token_count |-> 0, mention_count |-> 0,
     cluster_count |-> 0, singleton_count |-> 0]

Crash(kind) ==
    /\ pc' = "crashed"
    /\ error' = kind

\* self.get_paragraph_data(paragraph) for the next block of the file
get_paragraph_data ==
    /\ pc = "read"
    /\ para_i < Len(paragraphs)
    /\ para_i' = para_i + 1
    /\ LET r == GetParagraphData(paragraphs[para_i + 1])
       IN  IF r.err # NoError
           THEN /\ Crash(r.err)
                /\ UNCHANGED <<text, tokens, labels>>
           ELSE /\ text' = r.text
                /\ tokens' = r.tokens
                /\ labels' = r.labels
                /\ pc' = "loaded"
                /\ UNCHANGED error
    /\ UNCHANGED <<flags, mention_dict, clusters, aliases, exappos_mentions,
                   appos_mentions, statistics, mention_pairs, appositive_pairs,
                   paragraphs, output_data, groupvars>>

extract_mentions ==
    /\ pc = "loaded"
    /\ LET r == ExtractMentions(mention_dict, tokens, labels)
       IN  /\ mention_dict' = r.md
           /\ IF r.err # NoError
              THEN Crash(r.err)
              ELSE pc' = "extracted" /\ UNCHANGED error
    /\ UNCHANGED <<flags, text, tokens, labels, clusters, aliases,
                   exappos_mentions, appos_mentions, statistics, mention_pairs,
                   appositive_pairs, paragraphs, para_i, output_data,
                   groupvars>>

extract_coreference_links ==
    /\ pc = "extracted"
    /\ LET r == ExtractCoreferenceLinks(mention_dict, tokens, labels, aliases,
                                        exappos_mentions, appos_mentions,
                                        use_appos, use_aliases, use_exappos)
       IN  /\ mention_pairs' = r.pairs
           /\ appositive_pairs' = r.apairs
           /\ aliases' = r.aliases
           /\ exappos_mentions' = r.exappos
           /\ mention_dict' = r.md
           /\ appos_mentions' = r.appos
           /\ IF r.err # NoError
              THEN /\ Crash(r.err)
                   /\ UNCHANGED clusters           \* line 199 is not reached
              ELSE /\ clusters' = r.clusters
                   /\ pc' = "linked"
                   /\ UNCHANGED error
    /\ UNCHANGED <<flags, text, tokens, labels, statistics, paragraphs, para_i,
                   output_data, groupvars>>

assign_mentions_to_clusters ==
    /\ pc = "linked"
    /\ LET r == AssignMentionsToClusters(mention_dict, clusters, remove_singletons)
       IN  /\ mention_dict' = r.md
           /\ statistics' = [statistics EXCEPT !.singleton_count = @ + r.singletons]
    /\ pc' = "assigned"
    /\ UNCHANGED <<flags, text, tokens, labels, clusters, aliases,
                   exappos_mentions, appos_mentions, mention_pairs,
                   appositive_pairs, paragraphs, para_i, output_data, error,
                   groupvars>>

\* get_coref_info: "if not self._use_aliases: self._remove_aliases()"
remove_aliases ==
    /\ pc = "assigned"
    /\ IF use_aliases
       THEN /\ pc' = "aliases_done"
            /\ UNCHANGED <<mention_dict, clusters, error>>
       ELSE LET r == RemoveAliasesOp(mention_dict, clusters, aliases)
            IN  /\ mention_dict' = r.md
                /\ clusters' = r.clusters
                /\ IF r.err # NoError
                   THEN Crash(r.err)
                   ELSE pc' = "aliases_done" /\ UNCHANGED error
    /\ UNCHANGED <<flags, text, tokens, labels, aliases, exappos_mentions,
                   appos_mentions, statistics, mention_pairs, appositive_pairs,
                   paragraphs, para_i, output_data, groupvars>>

\* get_coref_info: "if not self._use_exappos: self._remove_exappos()"
remove_exappos ==
    /\ pc = "aliases_done"
    /\ IF use_exappos
       THEN /\ pc' = "coref_done"
            /\ UNCHANGED <<mention_dict, clusters, error>>
       ELSE LET r == RemoveExapposOp(mention_dict, clusters, exappos_mentions)
            IN  /\ mention_dict' = r.md
                /\ clusters' = r.clusters
                /\ IF r.err # NoError
                   THEN Crash(r.err)
                   ELSE pc' = "coref_done" /\ UNCHANGED error
    /\ UNCHANGED <<flags, text, tokens, labels, aliases, exappos_mentions,
                   appos_mentions, statistics, mention_pairs, appositive_pairs,
                   paragraphs, para_i, output_data, groupvars>>

\* "2. Update statistics and overall data pool"; the last statement,
\* _accumulate_mention_type_counts, reads mention["type"] of every mention.
append_record ==
    /\ pc = "coref_done"
    /\ output_data' = Append(output_data, ParagraphDict(text, tokens, mention_dict))
    /\ statistics' = [statistics EXCEPT
                         !.paragraph_count = @ + 1,
                         !.token_count = @ + Len(tokens),
                         !.mention_count = @ + Len(mention_dict),
                         !.cluster_count = @ + Len(clusters)]
    /\ IF \E k \in 1..Len(mention_dict) : mention_dict[k].type = NoType
       THEN Crash("KeyError")
       ELSE pc' = "appended" /\ UNCHANGED error
    /\ UNCHANGED <<flags, fields, mention_pairs, appositive_pairs, paragraphs,
                   para_i, groupvars>>

\* self.reset(); the two pair lists are locals and do not outlive the call
reset ==
    /\ pc = "appended"
    /\ text' = ""
    /\ tokens' = <<>>
    /\ labels' = <<>>
    /\ mention_dict' = <<>>
    /\ clusters' = <<>>
    /\ aliases' = <<>>
    /\ appos_mentions' = EmptySet
    /\ mention_pairs' = <<>>
    /\ appositive_pairs' = <<>>
    /\ pc' = "read"
    /\ UNCHANGED <<flags, exappos_mentions, statistics, paragraphs, para_i,
                   output_data, error, groupvars>>

\* jsonl_file.write_all(output_data), then log_dataset_statistics, which
\* divides by paragraph_count and by cluster_count.
save ==
    /\ pc = "read"
    /\ para_i = Len(paragraphs)
    /\ pc' = "saved"
    /\ error' = IF statistics.paragraph_count = 0 \/ statistics.cluster_count = 0
                THEN "ZeroDivisionError" ELSE NoError
    /\ UNCHANGED <<flags, fields, statistics, mention_pairs, appositive_pairs,
                   paragraphs, para_i, output_data, groupvars>>

Next ==
    \/ get_paragraph_data
    \/ extract_mentions
    \/ extract_coreference_links
    \/ assign_mentions_to_clusters
    \/ remove_aliases
    \/ remove_exappos
    \/ append_record
    \/ reset
    \/ save

-----------------------------------------------------------------------------
(* One call of _group_mentions_into_clusters, statement by statement.      *)

group_begin ==
    /\ g_pc = "call"
    /\ IF Len(g_pairs) = 0
       THEN /\ cluster_list' = <<>>
            /\ g_i' = 0
            /\ g_pc' = "returned"
       ELSE /\ cluster_list' = <<PairSet(g_pairs[1])>>
            /\ g_i' = 1
            /\ g_pc' = "loop"
    /\ UNCHANGED <<flags, fields, statistics, mention_pairs, appositive_pairs,
                   paragraphs, para_i, output_data, pc, error, g_pairs>>

group_iterate ==
    /\ g_pc = "loop"
    /\ g_i < Len(g_pairs)
    /\ cluster_list' = GroupStep(cluster_list, g_pairs[g_i + 1])
    /\ g_i' = g_i + 1
    /\ UNCHANGED <<flags, fields, statistics, mention_pairs, appositive_pairs,
                   paragraphs, para_i, output_data, pc, error, g_pairs, g_pc>>

group_return ==
    /\ g_pc = "loop"
    /\ g_i = Len(g_pairs)
    /\ g_pc' = "returned"
    /\ UNCHANGED <<flags, fields, statistics, mention_pairs, appositive_pairs,
                   paragraphs, para_i, output_data, pc, error, g_pairs, g_i,
                   cluster_list>>

NextGroup ==
    \/ group_begin
    \/ group_iterate
    \/ group_return

-----------------------------------------------------------------------------
(* The inputs.                                                             *)

MentionLabel(type, id) == [prefix |-> type, ids |-> <<id>>]
LinkLabel(kind, a, b) == [prefix |-> kind, ids |-> <<a, b>>]
Line(token, labs) ==
    [columns |-> 4, index |-> "1-1", offsets |-> "0-1", token |-> token,
     labels |-> labs, rest |-> <<>>]

\* All sequences over S of length 0..n.
RECURSIVE SeqsUpTo(_, _)
SeqsUpTo(S, n) ==
    IF n = 0 THEN {<<>>}
    ELSE LET shorter == SeqsUpTo(S, n - 1)
         IN  shorter \cup {Append(q, x) : q \in {r \in shorter : Len(r) = n - 1}, x \in S}

\* The state after construction, with the blocks of the input file read.
InitFields(corpus, fs) ==
    /\ use_appos = fs[1]
    /\ use_exappos = fs[2]
    /\ use_aliases = fs[3]
    /\ remove_singletons = fs[4]
    /\ text = ""
    /\ tokens = <<>>
    /\ labels = <<>>
    /\ mention_dict = <<>>
    /\ clusters = <<>>
    /\ aliases = <<>>
    /\ exappos_mentions = <<>>
    /\ appos_mentions = EmptySet
    /\ statistics = EmptyStatistics
    /\ mention_pairs = <<>>
    /\ appositive_pairs = <<>>
    /\ paragraphs = corpus
    /\ para_i = 0
    /\ output_data = <<>>
    /\ error = NoError

InitWith(corpus, fs) ==
    /\ InitFields(corpus, fs)
    /\ pc = "read"
    /\ g_pairs = <<>>
    /\ g_i = 0
    /\ cluster_list = <<>>
    /\ g_pc = "off"

AllFlags == BOOLEAN \X BOOLEAN \X BOOLEAN \X BOOLEAN

(* Spec: one paragraph of three one-token mentions, NOUN[1], NOUN[3] and   *)
(* NOUN[4]; identifier 2 is the identifier of no mention, so a relation    *)
(* that names it references an absent mention.  The relation labels, of    *)
(* all four kinds and between any two identifiers a < b at most two apart, *)
(* stand on the first line, at most MaxLinks of them; all sixteen flag     *)
(* settings.                                                               *)

MaxLinks == 2

Ids == 1..4
PresentIds == {1, 3, 4}

LinkLabelsOf(kinds) ==
    {LinkLabel(kind, p[1], p[2]) :
        kind \in kinds, p \in {q \in Ids \X Ids : q[1] < q[2] /\ q[2] - q[1] <= 2}}

PolicyParagraph(links) ==
    LET ids == SortedTuple(PresentIds)
    IN  [first |-> "#Text=text",
         lines |-> [k \in 1..Len(ids) |->
                      Line("w", IF k = 1
                                THEN <<MentionLabel("NOUN", ids[k])>> \o links
                                ELSE <<MentionLabel("NOUN", ids[k])>>)]]

PolicyParagraphs(kinds, n) ==
    {PolicyParagraph(links) : links \in SeqsUpTo(LinkLabelsOf(kinds), n)}

Init ==
    \E p \in PolicyParagraphs(COREFERENCE_LINK_TYPES, MaxLinks), fs \in AllFlags :
        InitWith(<<p>>, fs)

Spec == Init /\ [][Next]_vars

(* SpecClusters: the same paragraphs with up to MaxClusterLinks relations  *)
(* of the kinds IDENT and ALIAS, enough for a pair that bridges two        *)
(* clusters; the two flags that these kinds leave without effect are off.  *)

MaxClusterLinks == 3

InitClusters ==
    \E p \in PolicyParagraphs({"IDENT", "ALIAS"}, MaxClusterLinks),
       fs \in {<<FALSE, FALSE>>} \X BOOLEAN \X BOOLEAN :
        InitWith(<<p>>, <<fs[1][1], fs[1][2], fs[2], fs[3]>>)

SpecClusters == InitClusters /\ [][Next]_vars

(* SpecCorpus: a file of 1 to MaxParagraphs blocks (data.split("\n\n")      *)
(* has at least one), each with at most one relation; all sixteen flag     *)
(* settings.                                                               *)

MaxParagraphs == 2

InitCorpus ==
    \E corpus \in {c \in SeqsUpTo(PolicyParagraphs(COREFERENCE_LINK_TYPES, 1),
                                   MaxParagraphs) : Len(c) >= 1},
       fs \in AllFlags :
        InitWith(corpus, fs)

SpecCorpus == InitCorpus /\ [][Next]_vars

(* SpecSpans: one paragraph of at most MaxTokens lines.  A line is a       *)
(* structural line of one column, or has the token "w" and one of the      *)
(* label columns of SpanLabelLists (mentions that continue, stop, resume,  *)
(* change type and overlap, an appositive relation between mentions 1 and  *)
(* 2, a tag that contains a link type, a mention label beside the          *)
(* placeholder, and the empty column, which the strip of the block removes *)
(* from the last line), or is a parenthesis: an                            *)
(* opening one inside a mention, a closing one inside the second mention   *)
(* or outside every mention.  use_appos is on or off, the other flags are  *)
(* off.                                                                    *)

MaxTokens == 3

SpanLabelLists ==
    { <<Placeholder>>,
      <<MentionLabel("NOUN", 1)>>,
      <<MentionLabel("PROPER", 1)>>,
      <<MentionLabel("NOUN", 2)>>,
      <<MentionLabel("NOUN", 1), MentionLabel("NOUN", 2)>>,
      <<MentionLabel("NOUN", 2), LinkLabel("APPOS", 1, 2)>>,
      <<MentionLabel("IDENTITY", 2)>>,
      <<MentionLabel("NOUN", 1), Placeholder>>,
      <<EmptyLabel>> }
ParenLines ==
    { Line("(", <<MentionLabel("NOUN", 1)>>),
      Line("(", <<MentionLabel("NOUN", 2), LinkLabel("APPOS", 1, 2)>>),
      Line(")", <<MentionLabel("NOUN", 2)>>),
      Line(")", <<Placeholder>>) }
StructuralLine ==
    [columns |-> 1, index |-> "#", offsets |-> "", token |-> "",
     labels |-> <<>>, rest |-> <<>>]
SpanLines ==
    {Line("w", labs) : labs \in SpanLabelLists} \cup ParenLines \cup {StructuralLine}

InitSpans ==
    \E lines \in SeqsUpTo(SpanLines, MaxTokens), fuse \in BOOLEAN :
        InitWith(<<[first |-> "#Text=text", lines |-> lines]>>,
                 <<fuse, FALSE, FALSE, FALSE>>)

SpecSpans == InitSpans /\ [][Next]_vars

(* SpecGroup: one call of _group_mentions_into_clusters on a list of at    *)
(* most MaxPairs pairs over four identifiers, or on the list of the        *)
(* method's docstring.                                                     *)

MaxPairs == 3

GroupIds == {1, 2, 3, 4}
DocstringPairs == << <<1, 2>>, <<2, 3>>, <<4, 5>>, <<6, 7>>, <<5, 9>> >>

GroupPairs == GroupIds \X GroupIds

InitGroup ==
    /\ InitFields(<<>>, <<FALSE, FALSE, FALSE, FALSE>>)
    /\ pc = "off"
    /\ g_pairs \in SeqsUpTo(GroupPairs, MaxPairs) \cup {DocstringPairs}
    /\ g_i = 0
    /\ cluster_list = <<>>
    /\ g_pc = "call"

SpecGroup == InitGroup /\ [][NextGroup]_vars

-----------------------------------------------------------------------------
(* Vocabulary of the properties, read off the paragraph's labels.          *)

Positions == 0..(Len(labels) - 1)

\* The mention labels at position i: the labels of a line that is not a
\* placeholder line, apart from the relation labels.
MentionLabelsAt(i) ==
    IF InList(Placeholder, labels[i + 1]) THEN {}
    ELSE {l \in Range(labels[i + 1]) : ~IsLinkLabel(l) /\ l # EmptyLabel}

LabelledIds == UNION {{MentionId(l) : l \in MentionLabelsAt(i)} : i \in Positions}

RelationLabels == {l \in Range(Flatten(labels)) : IsLinkLabel(l) /\ Len(l.ids) = 2}
AliasTargets == {l.ids[2] : l \in {r \in RelationLabels : r.prefix = "ALIAS"}}

-----------------------------------------------------------------------------
(* C10 as claimed: after _extract_mentions the mention set has exactly the *)
(* identifiers of the mention labels (the labels of a position that are    *)
(* neither the placeholder nor a relation label); each mention starts at   *)
(* the first position where its identifier is seen, ends at the last       *)
(* position where one of its labels is not repeated verbatim on the next   *)
(* line (or is on the last line), has the tokens from start to end as text *)
(* and the prefix of a label that ends there as type, and start <= end.    *)

C10_MentionLabelsAt(i) ==
    {l \in Range(labels[i + 1]) :
        l # Placeholder /\ ~IsLinkLabel(l) /\ l # EmptyLabel}

C10_LabelsOf(id, i) == {l \in C10_MentionLabelsAt(i) : MentionId(l) = id}
C10_SeenAt(id) == {i \in Positions : C10_LabelsOf(id, i) # {}}
C10_LabelledIds ==
    UNION {{MentionId(l) : l \in C10_MentionLabelsAt(i)} : i \in Positions}
C10_EndingAt(id, i) ==
    {l \in C10_LabelsOf(id, i) :
        i = Len(labels) - 1 \/ l \notin Range(labels[i + 2])}
C10_EndsAt(id) == {i \in Positions : C10_EndingAt(id, i) # {}}

C10_SpanOf(m) ==
    /\ C10_SeenAt(m.id) # {} /\ m.start = Min(C10_SeenAt(m.id))
    /\ C10_EndsAt(m.id) # {} /\ m.end = Max(C10_EndsAt(m.id))
    /\ 0 <= m.start /\ m.start <= m.end /\ m.end < Len(tokens)
    /\ m.text = <<Slice(tokens, m.start, m.end + 1)>>
    /\ \E l \in C10_EndingAt(m.id, m.end) : m.type = <<l.prefix>>

C10_ExtractMentions ==
    pc = "extracted" =>
        /\ MentionIds(mention_dict) = C10_LabelledIds
        /\ \A k \in 1..Len(mention_dict) : C10_SpanOf(mention_dict[k])
        /\ \A j, k \in 1..Len(mention_dict) :
              mention_dict[j].id = mention_dict[k].id => j = k

-----------------------------------------------------------------------------
(* C9: _group_mentions_into_clusters takes the pairs in input order; each  *)
(* pair goes into the first cluster, in list order, that shares an         *)
(* identifier with it, and into no other, or becomes a new last cluster    *)
(* when no cluster shares one.  So the number of clusters never            *)
(* decreases, a pair that bridges two clusters leaves them separate, the   *)
(* union of the returned clusters is the set of identifiers of the pairs,  *)
(* and the list of the docstring gives [{1,2,3}, {4,5,9}, {6,7}].          *)

C9_Intersecting(pair) ==
    {k \in 1..Len(cluster_list) : \E x \in cluster_list[k] : x = pair[1] \/ x = pair[2]}

C9_PairStep(pair) ==
    LET hit == C9_Intersecting(pair)
    IN  IF hit = {}
        THEN /\ Len(cluster_list') = Len(cluster_list) + 1
             /\ \A k \in 1..Len(cluster_list) : cluster_list'[k] = cluster_list[k]
             /\ cluster_list'[Len(cluster_list')] = {pair[1], pair[2]}
        ELSE /\ Len(cluster_list') = Len(cluster_list)
             /\ \A k \in 1..Len(cluster_list) :
                   cluster_list'[k] =
                      IF k \in hit /\ \A j \in hit : k <= j
                      THEN cluster_list[k] \cup {pair[1], pair[2]}
                      ELSE cluster_list[k]

C9_Step ==
    /\ g_pc = "call" /\ Len(g_pairs) > 0 => C9_PairStep(g_pairs[1])
    /\ g_pc = "call" => g_i' = IF Len(g_pairs) > 0 THEN 1 ELSE 0
    /\ g_pc = "loop" /\ g_i < Len(g_pairs) =>
          C9_PairStep(g_pairs[g_i + 1]) /\ g_i' = g_i + 1
    /\ Len(cluster_list') >= Len(cluster_list)
    /\ g_pc' = "returned" =>
          /\ g_i' = Len(g_pairs)
          /\ UNION Range(cluster_list') =
                UNION {{g_pairs[k][1], g_pairs[k][2]} : k \in 1..Len(g_pairs)}
          /\ g_pairs = DocstringPairs =>
                cluster_list' = << {1, 2, 3}, {4, 5, 9}, {6, 7} >>

C9_GroupMentionsIntoClusters == [][C9_Step]_vars

\* a call has returned two clusters that share an identifier: a pair
\* bridged them and they stayed separate
C9_Witness ==
    /\ g_pc = "returned"
    /\ \E i, j \in 1..Len(cluster_list) :
          i < j /\ cluster_list[i] \cap cluster_list[j] # {}

-----------------------------------------------------------------------------
(* C5.  The identifiers of the mentions of the record that carry label i,  *)
(* and the groups that the dataset reader builds from the record.          *)

LabelGroup(i) ==
    {mention_dict[k].id : k \in {j \in 1..Len(mention_dict) : mention_dict[j].label = i}}

C5_Reader == ReaderClusters(output_data[Len(output_data)].corefs)

\* C5 as claimed: grouping the corefs of a record by label gives back the
\* member set of every cluster of the final cluster list that is not empty.
C5_Original ==
    pc = "appended" =>
        \A i \in 1..Len(clusters) :
            clusters[i] # {} => LabelGroup(i - 1) = clusters[i]

\* C5 as amended: the mentions of a record with label i are the members of
\* cluster i of the final cluster list that are in the mention set and in
\* no earlier cluster; the reader's groups are the spans of these mentions,
\* one group for every label that some mention carries.
C5_RoundTrip ==
    pc = "appended" =>
        /\ \A i \in 1..Len(clusters) :
              LabelGroup(i - 1) =
                 {x \in clusters[i] :
                     /\ HasMention(mention_dict, x)
                     /\ \A j \in 1..(i - 1) : x \notin clusters[j]}
        /\ \A k \in 1..Len(mention_dict) :
              mention_dict[k].label \in {None} \cup (0..(Len(clusters) - 1))
        /\ C5_Reader.err = NoError
        /\ DOMAIN C5_Reader.clusters =
              {i \in 0..(Len(clusters) - 1) : LabelGroup(i) # {}}
        /\ \A i \in DOMAIN C5_Reader.clusters :
              /\ Len(C5_Reader.clusters[i]) = Cardinality(LabelGroup(i))
              /\ Range(C5_Reader.clusters[i]) =
                    {<<Mention(mention_dict, x).start, Mention(mention_dict, x).end>> :
                        x \in LabelGroup(i)}

\* a record in which a mention is a member of two clusters, bridged by a
\* pair, and carries the label of the first
C5_Witness ==
    /\ pc = "appended"
    /\ \E i, j \in 1..Len(clusters) :
          /\ i < j
          /\ \E x \in clusters[i] \cap clusters[j] :
                HasMention(mention_dict, x) /\ x \in LabelGroup(i - 1)
          /\ LabelGroup(j - 1) # {}

-----------------------------------------------------------------------------
(* C6 as claimed: every member of a cluster built from the coreference     *)
(* pairs is in the mention set when the clusters are built.                *)
C6_Original ==
    pc = "linked" =>
        \A i \in 1..Len(clusters) : \A x \in clusters[i] :
            HasMention(mention_dict, x)

\* C6 as amended: every member of a cluster is an identifier of a
\* coreference pair, and it is in the mention set when the clusters are
\* built exactly when the paragraph has a mention label with that
\* identifier; an identifier that only relations name is a member of its
\* cluster without being a mention.
C6_ClusterMembers ==
    pc = "linked" =>
        LET labelled == LabelledIds
        IN  /\ UNION Range(clusters) = Endpoints(mention_pairs)
            /\ \A i \in 1..Len(clusters) : \A x \in clusters[i] :
                  HasMention(mention_dict, x) <=> x \in labelled

\* a cluster has a member that is a bare appositive, kept in the mention
\* set because a coreference pair names it
C6_Witness ==
    /\ pc = "linked"
    /\ \E i \in 1..Len(clusters) : \E x \in clusters[i] :
          x \in SetMembers(appos_mentions) /\ HasMention(mention_dict, x)

-----------------------------------------------------------------------------
(* C7 as claimed: when get_coref_info has returned, the second identifier  *)
(* b of every ALIAS[a_b] is in no cluster and not in the mention set if    *)
(* use_aliases is off, and, being a mention of the paragraph, is still a    *)
(* mention and has a cluster label if it is on.                            *)
C7_Original ==
    pc = "coref_done" =>
        \A b \in AliasTargets :
            IF ~use_aliases
            THEN /\ ~HasMention(mention_dict, b)
                 /\ \A i \in 1..Len(clusters) : b \notin clusters[i]
            ELSE b \in LabelledIds =>
                 /\ HasMention(mention_dict, b)
                 /\ Mention(mention_dict, b).label # None

\* C7 as amended: with use_aliases on, b is a mention with the label of
\* the first cluster that contains it provided that the paragraph has a
\* mention label for b and that b is not in the extended-appositive
\* removal list (which it is when use_exappos is off and b is the second
\* identifier of an EXAPPOS relation).
C7_AliasRemoval ==
    pc = "coref_done" =>
        LET labelled == LabelledIds
        IN  \A b \in AliasTargets :
            IF ~use_aliases
            THEN /\ ~HasMention(mention_dict, b)
                 /\ \A i \in 1..Len(clusters) : b \notin clusters[i]
            ELSE b \in labelled /\ b \notin Range(exappos_mentions) =>
                 /\ HasMention(mention_dict, b)
                 /\ Mention(mention_dict, b).label # None
                 /\ b \in clusters[Mention(mention_dict, b).label + 1]
                 /\ \A j \in 1..Mention(mention_dict, b).label : b \notin clusters[j]

\* use_aliases is off, get_coref_info has returned, and the alias target
\* is gone while the mention it was an alias of keeps its label
C7_Witness ==
    /\ pc = "coref_done"
    /\ ~use_aliases
    /\ \E l \in RelationLabels :
          /\ l.prefix = "ALIAS"
          /\ ~HasMention(mention_dict, l.ids[2])
          /\ HasMention(mention_dict, l.ids[1])
          /\ Mention(mention_dict, l.ids[1]).label # None

-----------------------------------------------------------------------------
(* C1 as claimed: every mention of every record has                        *)
(* 0 <= start <= end < len(tokens).                                        *)
C1_ValidSpans ==
    \A r \in 1..Len(output_data) :
        \A k \in 1..Len(output_data[r].corefs) :
            LET m == output_data[r].corefs[k]
            IN  0 <= m.start /\ m.start <= m.end
                /\ m.end < Len(output_data[r].tokens)

-----------------------------------------------------------------------------
(* C2 as claimed: after reset() every paragraph field is empty, and the    *)
(* record of a paragraph is the record that an engine with the same flags  *)
(* and empty fields produces for it, after whatever paragraphs came        *)
(* before.                                                                 *)
C2_Fresh == GetCorefInfo(paragraphs[para_i], flags, <<>>)

C2_Isolation ==
    /\ pc = "read" =>
          /\ text = "" /\ tokens = <<>> /\ labels = <<>>
          /\ mention_dict = <<>> /\ clusters = <<>> /\ aliases = <<>>
          /\ exappos_mentions = <<>> /\ appos_mentions = EmptySet
    /\ pc = "appended" =>
          /\ C2_Fresh.err = NoError
          /\ output_data[Len(output_data)] =
                ParagraphDict(StrippedText(paragraphs[para_i]),
                              ParagraphTokens(paragraphs[para_i]), C2_Fresh.md)
    /\ pc = "crashed" => C2_Fresh.err # NoError

-----------------------------------------------------------------------------
(* C3 as claimed: no relation that names an absent mention and no removal  *)
(* of an absent identifier is fatal: every block gets its record.          *)
C3_NeverFatal ==
    /\ pc # "crashed"
    /\ pc = "saved" => Len(output_data) = Len(paragraphs)

-----------------------------------------------------------------------------
(* C4 as claimed: after _extract_coreference_links every member of an      *)
(* appositive cluster other than its lowest identifier is in the           *)
(* bare-appositive set, and a bare-appositive mention of the paragraph is  *)
(* in the mention set exactly when a coreference pair names it.            *)
C4_BareAppositives ==
    pc = "linked" =>
        /\ \A i \in 1..Len(Group(appositive_pairs)) :
              LET c == Group(appositive_pairs)[i]
              IN  c \ {Min(c)} \subseteq SetMembers(appos_mentions)
        /\ \A x \in SetMembers(appos_mentions) \cap LabelledIds :
              HasMention(mention_dict, x) <=> x \in Endpoints(mention_pairs)

-----------------------------------------------------------------------------
(* C8 as claimed, for _extract_coreference_links called with the           *)
(* appositive relation between two mentions of the paragraph, head (the    *)
(* lower identifier) and tail: with use_appos the head keeps its start     *)
(* and gets the tail's end, one more when the fused text has exactly one   *)
(* more "(" than ")" and the token after the new end is ")"; when no token *)
(* follows, the end stays; the text is the token slice.  Without           *)
(* use_appos the head is unchanged.                                        *)
C8_Repair(fused, new_end) ==
    /\ Count(fused, "(") = Count(fused, ")") + 1
    /\ new_end + 1 < Len(tokens)
    /\ tokens[new_end + 2] = ")"

C8_Head(head, tail) ==
    LET old == Mention(mention_dict, head)
        new_end == Mention(mention_dict, tail).end
        fused == Slice(tokens, old.start, new_end + 1)
        end == IF C8_Repair(fused, new_end) THEN new_end + 1 ELSE new_end
    IN  /\ pc' = "linked"
        /\ HasMention(mention_dict', head)
        /\ Mention(mention_dict', head) =
              IF use_appos
              THEN [old EXCEPT !.end = end,
                               !.text = <<Slice(tokens, old.start, end + 1)>>]
              ELSE old

C8_Step ==
    pc = "extracted" /\ pc' # "extracted" =>
        \A i \in 1..Len(Group(appositive_pairs')) :
            LET c == Group(appositive_pairs')[i]
            IN  c \subseteq MentionIds(mention_dict) => C8_Head(Min(c), Max(c))

C8_Fusion == [][C8_Step]_vars

=============================================================================
